---- MODULE Spec2Model ----
(***************************************************************************)
(* Deployment orchestration pipeline of docker-factory.                    *)
(*                                                                         *)
(* SecureGCPContainerManager.deploy (src/src/container_manager.py) builds  *)
(* an image, ensures the Artifact Registry repository, pushes the image    *)
(* and polls for its visibility (src/src/services/artifact_service.py),    *)
(* deploys the Cloud Run service and binds its IAM policy, fetches the     *)
(* service info and issues a token (src/main.py holds these three          *)
(* operations).  Each deployment attempt is a sequence of blocking calls;  *)
(* attempts of different requests interleave at the calls.  The remote     *)
(* services (registry, compute platform), the docker daemon and the gcloud *)
(* command line are the environment: every call either succeeds or raises  *)
(* one of the errors listed for it.                                        *)
(***************************************************************************)
EXTENDS Integers, Sequences, FiniteSets, TLC

VARIABLES
    client_id,      \* attempt -> the client id given to the constructor
    unique_id,      \* attempt -> timestamp-random suffix drawn by the constructor
    pc,             \* attempt -> position in the pipeline
    calls,          \* attempt -> collaborator operations invoked so far and how each ended
    retry_count,    \* attempt -> retry_count of the visibility loop
    exc,            \* attempt -> the exception in flight or delivered (NoExc if none)
    raised,         \* attempt -> the exception as first raised, and the calls made by then
    ensure_rets,    \* attempt -> outcomes of the create_repository calls completed
    initial_repositories, \* the registry as it was before any attempt ran
    outcome,        \* attempt -> what deploy() gave its caller
    response,       \* attempt -> what the HTTP route gave the client
    repositories,   \* registry: names of the repositories that exist
    images,         \* registry: image tags pushed
    services,       \* compute platform: service names created
    policies,       \* compute platform: service names with the invoker binding
    deployments,    \* persistence store: rows of the deployments table
    clock,          \* the wall clock datetime.now reads, in ticks
    token,          \* attempt -> the payload generate_access_token is building
    session,        \* attempt -> the database session of save_deployment
    save_rets       \* attempt -> outcomes of the save_deployment calls completed

vars == <<client_id, unique_id, pc, calls, retry_count, exc, raised,
          ensure_rets, initial_repositories, outcome, response, repositories,
          images, services, policies, deployments, clock, token, session,
          save_rets>>

-----------------------------------------------------------------------------
(* Bounds of the model *)

\* longest stdout of the image-list command that is enumerated
MaxStdoutLen == 2

Attempts == {"a1", "a2"}

\* client ids as character sequences: a@x, a@y (same part before '@'), b, and
\* the empty string
ClientIds == { <<"a", "@", "x">>, <<"a", "@", "y">>, <<"b">>, <<>> }

\* the attempts are interchangeable: the first one takes one client id of each
\* kind, the second one any (one other client with the empty id)
FirstClientIds == { <<"a", "@", "x">>, <<>> }

\* a client id as the specification wants it: not the empty string
ValidClient(a) == client_id[a] # <<>>

FirstUniqueId == "20240101-000000-aaaa"

UniqueIds == {FirstUniqueId, "20240101-000000-bbbb"}

-----------------------------------------------------------------------------
(* Identifiers: SecureGCPContainerManager._setup_identifiers *)

project_id == "proj"

region == "us-central1"

registry_location == <<region, "-docker.pkg.dev">>

image_name == "secure-app"

RECURSIVE BeforeAt(_)
\* str.split("@")[0]: the characters before the first '@' (all of them if none)
BeforeAt(s) ==
    IF s = <<>> \/ Head(s) = "@" THEN <<>>
    ELSE <<Head(s)>> \o BeforeAt(Tail(s))

\* a repository name made of the whole client id
repository_name_of_whole_id(a) == <<"secure-app-">> \o client_id[a]

repository_name(a) == <<"secure-app-">> \o BeforeAt(client_id[a])

service_name(a) == <<"secure-app-", unique_id[a]>>

image_tag(a) ==
    registry_location \o <<"/", project_id, "/">> \o repository_name(a)
        \o <<"/", image_name, ":", unique_id[a]>>

RepositoryNames == { <<"secure-app-">> \o BeforeAt(c) : c \in ClientIds }

-----------------------------------------------------------------------------
(* Exceptions *)

NoExc == [cls |-> "None", msg |-> "", op |-> ""]

Exc(cls, msg, op) == [cls |-> cls, msg |-> msg, op |-> op]

\* errors the collaborators raise (google.api_core.exceptions, docker.errors, OSError)
AppFilesErrors == { Exc("OSError", "cannot write template", "create_app_files") }

BuildErrors == { Exc("BuildError", "build failed", "build"),
                 Exc("APIError", "docker daemon error", "build") }

GetRepositoryErrors ==
    { Exc("PermissionDenied", "403 on repository", "getRepository"),
      Exc("InvalidArgument", "400 on repository", "getRepository"),
      Exc("ServiceUnavailable", "503 on repository", "getRepository") }

NotFound == Exc("NotFound", "404 repository not found", "getRepository")

CreateRepositoryErrors ==
    { Exc("PermissionDenied", "403 on create", "createRepository"),
      Exc("ServiceUnavailable", "503 on create", "createRepository") }

AlreadyExists == Exc("AlreadyExists", "409 repository exists", "createRepository")

PushErrors == { Exc("APIError", "push failed", "pushImage") }

CreateServiceErrors ==
    { Exc("PermissionDenied", "403 on service", "createService"),
      Exc("ServiceUnavailable", "503 on service", "createService") }

ServiceAlreadyExists == Exc("AlreadyExists", "409 service exists", "createService")

SetPolicyErrors == { Exc("PermissionDenied", "403 on policy", "setAccessPolicy") }

GetServiceErrors == { Exc("ServiceUnavailable", "503 on get service", "getService") }

-----------------------------------------------------------------------------
(* Exception handlers: each logs and re-raises with a bare `raise` *)

build_image_except(e) == e

build_container_except(e) == e

\* a handler that raises a new exception in place of the one it caught
create_repository_except_replacing(e) ==
    Exc("Exception", "Failed to create repository", e.op)

create_repository_except(e) == e

push_image_except(e) == e

\* a handler that raises a new exception in place of the one it caught
push_to_registry_except_replacing(e) ==
    Exc("Exception", "Failed to push container", e.op)

push_to_registry_except(e) == e

deploy_to_cloud_run_except(e) == e

\* a handler that raises a new exception in place of the one it caught
set_service_iam_policy_except_replacing(e) ==
    Exc("Exception", "Failed to deploy secure service", "createService")

set_service_iam_policy_except(e) == e

get_service_info_except(e) == e

\* a handler that wraps what it caught in an exception of its own
deploy_except_wrapping(e) ==
    Exc("RuntimeError", "Secure deployment workflow failed", "deploy")

deploy_except(e) == e

\* the HTTP route replaces the exception: HTTPException(500, detail=str(e))
create_deployment_except(e) == Exc("HTTPException", e.msg, "create_deployment")

-----------------------------------------------------------------------------
(* Local helpers of ArtifactService *)

\* the exception _configure_docker_auth raises on a non-zero exit
AuthFailed == Exc("Exception", "Failed to configure Docker authentication", "configureAuth")

\* the exception push_to_registry raises when the loop runs out
NotAvailable == Exc("Exception", "Image not available after retries", "listImages")

\* gcloud missing: subprocess.run itself raises
GcloudMissing(op) == Exc("FileNotFoundError", "gcloud", op)

MaxRetries == 3

Whitespace == {" ", "\n"}

StdoutChars == Whitespace \cup {"x"}

Stdouts == UNION { [1..n -> StdoutChars] : n \in 0..MaxStdoutLen }

RECURSIVE LStrip(_)
LStrip(s) == IF s # <<>> /\ Head(s) \in Whitespace THEN LStrip(Tail(s)) ELSE s

RECURSIVE RStrip(_)
RStrip(s) ==
    IF s # <<>> /\ s[Len(s)] \in Whitespace
    THEN RStrip(SubSeq(s, 1, Len(s) - 1)) ELSE s

\* str.strip()
Strip(s) == RStrip(LStrip(s))

\* what subprocess.run may give for the list command: a completed process, or
\* an exception of subprocess.run itself
ListResults ==
    [raises : {FALSE}, returncode : {0, 1}, stdout : Stdouts]
        \cup [raises : {TRUE}, returncode : {0}, stdout : {<<>>}]

\* a test that looks at the exit code only
verify_image_exists_by_exit_code(r) == r.returncode = 0

\* ArtifactService._verify_image_exists
verify_image_exists(r) ==
    IF r.raises THEN FALSE
    ELSE r.returncode = 0 /\ Strip(r.stdout) # <<>>

-----------------------------------------------------------------------------
(* Initial state: the managers are constructed, nothing has run *)

NoOutcome == [kind |-> "none", exc |-> NoExc, fields |-> {}]

NoRaised == [exc |-> NoExc, calls |-> <<>>]

InitCommon ==
    /\ client_id \in [Attempts -> ClientIds]
    /\ client_id["a1"] \in FirstClientIds
    /\ client_id["a1"] = <<>> => client_id["a2"] = <<"b">>
    /\ unique_id \in [Attempts -> UniqueIds]
    /\ unique_id["a1"] = FirstUniqueId
    /\ calls = [a \in Attempts |-> <<>>]
    /\ retry_count = [a \in Attempts |-> 0]
    /\ exc = [a \in Attempts |-> NoExc]
    /\ raised = [a \in Attempts |-> NoRaised]
    /\ ensure_rets = [a \in Attempts |-> <<>>]
    /\ outcome = [a \in Attempts |-> NoOutcome]
    /\ response = [a \in Attempts |-> NoOutcome]
    /\ images = {}
    /\ services = {}
    /\ policies = {}
    /\ deployments = {}

\* no token is being issued and no session is open
NoToken ==
    [state |-> "none", expiration_minutes |-> 0, exp |-> 0, iat |-> 0,
     encoded |-> [exp |-> 0, iat |-> 0]]

NoSession == [state |-> "closed", inserted |-> 0, exc |-> NoExc, concurrent |-> {}]

InitApart ==
    /\ clock = 0
    /\ token = [a \in Attempts |-> NoToken]
    /\ session = [a \in Attempts |-> NoSession]
    /\ save_rets = [a \in Attempts |-> <<>>]

Init ==
    /\ InitCommon
    /\ InitApart
    /\ pc = [a \in Attempts |-> "start"]
    /\ repositories \in SUBSET {repository_name(a) : a \in Attempts}
    /\ initial_repositories = repositories

-----------------------------------------------------------------------------
(* Steps shared by the actions *)

\* one invocation of a collaborator: the stage that made it, the operation,
\* and how it ended
Call(stage, op, res) == [stage |-> stage, op |-> op, res |-> res]

Invoke(a, stage, op, res) ==
    calls' = [calls EXCEPT ![a] = Append(@, Call(stage, op, res))]

\* A statement of a stage raises: `first` is the exception as it was raised,
\* e the same after the handlers of the stage it passed through.  The
\* exception is then in flight towards the caller of the stage.
Raise(a, e, first) ==
    /\ exc' = [exc EXCEPT ![a] = e]
    /\ raised' = [raised EXCEPT ![a] = [exc |-> first, calls |-> calls'[a]]]
    /\ pc' = [pc EXCEPT ![a] = "raising"]

Goto(a, label) ==
    /\ pc' = [pc EXCEPT ![a] = label]
    /\ UNCHANGED <<exc, raised>>

Returned(value) == [kind |-> "return", value |-> value, exc |-> NoExc]

Failed(e) == [kind |-> "raise", value |-> <<>>, exc |-> e]

\* the resource name of a repository: what get_repository and the finished
\* create operation return
repository_path(a) ==
    <<"projects/", project_id, "/locations/", region, "/repositories/">>
        \o repository_name(a)

\* the variables of the remote services and of the store
remote == <<repositories, images, services, policies, deployments>>

\* the token issuer and the store sessions, which run apart from the steps of
\* the pipeline
apart == <<clock, token, session, save_rets>>

fixed == <<client_id, unique_id, initial_repositories, apart>>

-----------------------------------------------------------------------------
(* SecureGCPContainerManager.deploy, statement by statement *)

\* deploy line 57: ContainerService.create_app_files (no handler of its own)
CreateAppFiles(a) ==
    /\ pc[a] = "start"
    /\ \/ /\ Invoke(a, "build", "create_app_files", "ok")
          /\ Goto(a, "build")
       \/ /\ Invoke(a, "build", "create_app_files", "raise")
          /\ \E e \in AppFilesErrors : Raise(a, e, e)
    /\ UNCHANGED <<retry_count, ensure_rets, outcome, response, remote, fixed>>

\* a build failure that is logged and passed over
BuildContainer_swallowing(a) ==
    /\ pc[a] = "build"
    /\ \E res \in {"ok", "raise"} : Invoke(a, "build", "build", res)
    /\ Goto(a, "repo_get")
    /\ UNCHANGED <<retry_count, ensure_rets, outcome, response, remote, fixed>>

\* deploy line 60: ContainerService.build_container -> DockerClient.build_image
BuildContainer(a) ==
    /\ pc[a] = "build"
    /\ \/ /\ Invoke(a, "build", "build", "ok")
          /\ Goto(a, "repo_get")
       \/ /\ Invoke(a, "build", "build", "raise")
          /\ \E e \in BuildErrors :
                Raise(a, build_container_except(build_image_except(e)), e)
    /\ UNCHANGED <<retry_count, ensure_rets, outcome, response, remote, fixed>>

-----------------------------------------------------------------------------
(* ArtifactService.create_repository *)

EnsureReturns(a, value) ==
    ensure_rets' = [ensure_rets EXCEPT ![a] = Append(@, Returned(value))]

\* the outer handler of create_repository (lines 50-52)
EnsureRaises(a, e) ==
    /\ ensure_rets' = [ensure_rets EXCEPT ![a] = Append(@, Failed(create_repository_except(e)))]
    /\ Raise(a, create_repository_except(e), e)

\* get_repository's answer ignored: create_repository always goes on to create
GetRepository_blind(a) ==
    /\ pc[a] = "repo_get"
    /\ \/ /\ Invoke(a, "repository", "getRepository",
                    IF repository_name(a) \in repositories THEN "found" ELSE "NotFound")
          /\ Goto(a, "repo_create")
          /\ UNCHANGED ensure_rets
       \/ /\ Invoke(a, "repository", "getRepository", "raise")
          /\ \E e \in GetRepositoryErrors : EnsureRaises(a, e)
    /\ UNCHANGED <<retry_count, outcome, response, remote, fixed>>

\* the authentication configuration run on the found path as well
GetRepository_reconfigures(a) ==
    /\ pc[a] = "repo_get"
    /\ \/ /\ Invoke(a, "repository", "getRepository",
                    IF repository_name(a) \in repositories THEN "found" ELSE "NotFound")
          /\ Goto(a, IF repository_name(a) \in repositories
                     THEN "repo_auth" ELSE "repo_create")
          /\ UNCHANGED ensure_rets
       \/ /\ Invoke(a, "repository", "getRepository", "raise")
          /\ \E e \in GetRepositoryErrors : EnsureRaises(a, e)
    /\ UNCHANGED <<retry_count, outcome, response, remote, fixed>>

\* lines 21-28: get_repository; found -> return it, NotFound -> go on to
\* create, any other error -> the outer handler
GetRepository(a) ==
    /\ pc[a] = "repo_get"
    /\ \/ /\ repository_name(a) \in repositories
          /\ Invoke(a, "repository", "getRepository", "found")
          /\ EnsureReturns(a, repository_path(a))
          /\ Goto(a, "repo_returned")
       \/ /\ repository_name(a) \notin repositories
          /\ Invoke(a, "repository", "getRepository", "NotFound")
          /\ Goto(a, "repo_create")
          /\ UNCHANGED ensure_rets
       \/ /\ Invoke(a, "repository", "getRepository", "raise")
          /\ \E e \in GetRepositoryErrors : EnsureRaises(a, e)
    /\ UNCHANGED <<retry_count, outcome, response, remote, fixed>>

\* a create whose failure is passed over on the way to the authentication step
CreateRepository_unchecked(a) ==
    /\ pc[a] = "repo_create"
    /\ \/ /\ repository_name(a) \notin repositories
          /\ Invoke(a, "repository", "createRepository", "ok")
          /\ repositories' = repositories \cup {repository_name(a)}
       \/ /\ Invoke(a, "repository", "createRepository", "raise")
          /\ UNCHANGED repositories
    /\ Goto(a, "repo_auth")
    /\ UNCHANGED <<retry_count, ensure_rets, outcome, response, images, services,
                   policies, deployments, fixed>>

\* lines 30-45: create_repository and operation.result()
CreateRepository(a) ==
    /\ pc[a] = "repo_create"
    /\ \/ /\ repository_name(a) \notin repositories
          /\ Invoke(a, "repository", "createRepository", "ok")
          /\ repositories' = repositories \cup {repository_name(a)}
          /\ Goto(a, "repo_auth")
          /\ UNCHANGED ensure_rets
       \/ /\ repository_name(a) \in repositories
          /\ Invoke(a, "repository", "createRepository", "raise")
          /\ EnsureRaises(a, AlreadyExists)
          /\ UNCHANGED repositories
       \/ /\ Invoke(a, "repository", "createRepository", "raise")
          /\ \E e \in CreateRepositoryErrors : EnsureRaises(a, e)
          /\ UNCHANGED repositories
    /\ UNCHANGED <<retry_count, outcome, response, images, services,
                   policies, deployments, fixed>>

\* lines 47-48 with _configure_docker_auth (76-84): configure, then return
\* the result of the create operation
RepositoryAuth(a) ==
    /\ pc[a] = "repo_auth"
    /\ \/ /\ Invoke(a, "repository", "configureAuth", "ok")
          /\ EnsureReturns(a, repository_path(a))
          /\ Goto(a, "repo_returned")
       \/ /\ Invoke(a, "repository", "configureAuth", "raise")
          /\ \E e \in {AuthFailed, GcloudMissing("configureAuth")} : EnsureRaises(a, e)
    /\ UNCHANGED <<retry_count, outcome, response, remote, fixed>>

-----------------------------------------------------------------------------
(* ArtifactService.push_to_registry *)

\* an authentication step whose failure is ignored
PushAuth_unchecked(a) ==
    /\ pc[a] = "repo_returned"
    /\ \E res \in {"ok", "raise"} : Invoke(a, "publish", "configureAuth", res)
    /\ Goto(a, "push")
    /\ UNCHANGED <<retry_count, ensure_rets, outcome, response, remote, fixed>>

\* line 58: _configure_docker_auth(registry_location)
PushAuth(a) ==
    /\ pc[a] = "repo_returned"
    /\ \/ /\ Invoke(a, "publish", "configureAuth", "ok")
          /\ Goto(a, "push")
       \/ /\ Invoke(a, "publish", "configureAuth", "raise")
          /\ \E e \in {AuthFailed, GcloudMissing("configureAuth")} :
                Raise(a, push_to_registry_except(e), e)
    /\ UNCHANGED <<retry_count, ensure_rets, outcome, response, remote, fixed>>

\* push_to_registry returning right after the push, without the queries
PushImage_unverified(a) ==
    /\ pc[a] = "push"
    /\ \/ /\ Invoke(a, "publish", "pushImage", "ok")
          /\ images' = images \cup {image_tag(a)}
          /\ Goto(a, "svc_create")
       \/ /\ Invoke(a, "publish", "pushImage", "raise")
          /\ \E e \in PushErrors :
                Raise(a, push_to_registry_except(push_image_except(e)), e)
          /\ UNCHANGED images
    /\ UNCHANGED <<retry_count, ensure_rets, outcome, response,
                   repositories, services, policies, deployments, fixed>>

\* line 60: DockerClient.push_image
PushImage(a) ==
    /\ pc[a] = "push"
    /\ \/ /\ Invoke(a, "publish", "pushImage", "ok")
          /\ images' = images \cup {image_tag(a)}
          /\ Goto(a, "poll")
       \/ /\ Invoke(a, "publish", "pushImage", "raise")
          /\ \E e \in PushErrors :
                Raise(a, push_to_registry_except(push_image_except(e)), e)
          /\ UNCHANGED images
    /\ UNCHANGED <<retry_count, ensure_rets, outcome, response,
                   repositories, services, policies, deployments, fixed>>

\* the loop condition off by one
loop_continues_once_more(n) == n <= MaxRetries

\* line 63: the loop condition
loop_continues(n) == n < MaxRetries

\* a loop that waits before every query, the observing one included
PollImage_waiting_first(a) ==
    /\ pc[a] = "poll"
    /\ loop_continues(retry_count[a])
    /\ \E r \in ListResults :
          IF verify_image_exists(r)
          THEN /\ calls' = [calls EXCEPT ![a] =
                      @ \o << Call("publish", "sleep", "ok"),
                              Call("publish", "listImages", "observed") >>]
               /\ retry_count' = retry_count
               /\ Goto(a, "svc_create")
          ELSE /\ calls' = [calls EXCEPT ![a] =
                      @ \o << Call("publish", "sleep", "ok"),
                              Call("publish", "listImages", "not_observed") >>]
               /\ retry_count' = [retry_count EXCEPT ![a] = @ + 1]
               /\ Goto(a, "poll")
    /\ UNCHANGED <<ensure_rets, outcome, response, remote, fixed>>

\* lines 63-68: one turn of the loop: query, and either return or log, sleep
\* and count
PollImage(a) ==
    /\ pc[a] = "poll"
    /\ loop_continues(retry_count[a])
    /\ \E r \in ListResults :
          IF verify_image_exists(r)
          THEN /\ Invoke(a, "publish", "listImages", "observed")
               /\ retry_count' = retry_count
               /\ Goto(a, "svc_create")
          ELSE /\ calls' = [calls EXCEPT ![a] =
                      @ \o << Call("publish", "listImages", "not_observed"),
                              Call("publish", "sleep", "ok") >>]
               /\ retry_count' = [retry_count EXCEPT ![a] = @ + 1]
               /\ Goto(a, "poll")
    /\ UNCHANGED <<ensure_rets, outcome, response, remote, fixed>>

\* the loop running out without a raise: push_to_registry just returns
PollExhausted_silent(a) ==
    /\ pc[a] = "poll"
    /\ ~loop_continues(retry_count[a])
    /\ UNCHANGED calls
    /\ Goto(a, "svc_create")
    /\ UNCHANGED <<retry_count, ensure_rets, outcome, response, remote, fixed>>

\* line 70: the loop ran out
PollExhausted(a) ==
    /\ pc[a] = "poll"
    /\ ~loop_continues(retry_count[a])
    /\ UNCHANGED calls
    /\ Raise(a, push_to_registry_except(NotAvailable), NotAvailable)
    /\ UNCHANGED <<retry_count, ensure_rets, outcome, response, remote, fixed>>

-----------------------------------------------------------------------------
(* Service deployer: deploy_to_cloud_run and set_service_iam_policy *)

\* create_service tried again after an error of the platform
CreateService_retrying(a) ==
    /\ pc[a] = "svc_create"
    /\ \/ /\ service_name(a) \notin services
          /\ Invoke(a, "service", "createService", "ok")
          /\ services' = services \cup {service_name(a)}
          /\ Goto(a, "svc_policy")
       \/ /\ service_name(a) \in services
          /\ Invoke(a, "service", "createService", "raise")
          /\ Raise(a, deploy_to_cloud_run_except(ServiceAlreadyExists),
                   ServiceAlreadyExists)
          /\ UNCHANGED services
       \/ /\ Invoke(a, "service", "createService", "raise")
          /\ Goto(a, "svc_create")
          /\ UNCHANGED services
    /\ UNCHANGED <<retry_count, ensure_rets, outcome, response,
                   repositories, images, policies, deployments, fixed>>

\* main.py lines 339-340: create_service and operation.result()
CreateService(a) ==
    /\ pc[a] = "svc_create"
    /\ \/ /\ service_name(a) \notin services
          /\ Invoke(a, "service", "createService", "ok")
          /\ services' = services \cup {service_name(a)}
          /\ Goto(a, "svc_policy")
       \/ /\ service_name(a) \in services
          /\ Invoke(a, "service", "createService", "raise")
          /\ Raise(a, deploy_to_cloud_run_except(ServiceAlreadyExists),
                   ServiceAlreadyExists)
          /\ UNCHANGED services
       \/ /\ Invoke(a, "service", "createService", "raise")
          /\ \E e \in CreateServiceErrors :
                Raise(a, deploy_to_cloud_run_except(e), e)
          /\ UNCHANGED services
    /\ UNCHANGED <<retry_count, ensure_rets, outcome, response,
                   repositories, images, policies, deployments, fixed>>

\* a policy failure that is logged and passed over
SetAccessPolicy_swallowing(a) ==
    /\ pc[a] = "svc_policy"
    /\ \/ /\ Invoke(a, "service", "setAccessPolicy", "ok")
          /\ policies' = policies \cup {service_name(a)}
       \/ /\ Invoke(a, "service", "setAccessPolicy", "raise")
          /\ UNCHANGED policies
    /\ Goto(a, "svc_info")
    /\ UNCHANGED <<retry_count, ensure_rets, outcome, response,
                   repositories, images, services, deployments, fixed>>

\* main.py line 343 with set_service_iam_policy (352-374)
SetAccessPolicy(a) ==
    /\ pc[a] = "svc_policy"
    /\ \/ /\ Invoke(a, "service", "setAccessPolicy", "ok")
          /\ policies' = policies \cup {service_name(a)}
          /\ Goto(a, "svc_info")
       \/ /\ Invoke(a, "service", "setAccessPolicy", "raise")
          /\ \E e \in SetPolicyErrors :
                Raise(a, deploy_to_cloud_run_except(set_service_iam_policy_except(e)), e)
          /\ UNCHANGED policies
    /\ UNCHANGED <<retry_count, ensure_rets, outcome, response,
                   repositories, images, services, deployments, fixed>>

\* a dictionary that lacks the websocket endpoint
ServiceInfoKeys_without_ws ==
    {"service_name", "rpc_endpoint", "status", "connection_examples"}

\* the keys of the dictionary get_service_info returns (main.py 399-419)
ServiceInfoKeys ==
    {"service_name", "rpc_endpoint", "ws_endpoint", "status", "connection_examples"}

\* deploy lines 73-76: get_service_info -> get_service
GetServiceInfo(a) ==
    /\ pc[a] = "svc_info"
    /\ \/ /\ Invoke(a, "info", "getService", "ok")
          /\ Goto(a, "token")
       \/ /\ Invoke(a, "info", "getService", "raise")
          /\ \E e \in GetServiceErrors : Raise(a, get_service_info_except(e), e)
    /\ UNCHANGED <<retry_count, ensure_rets, outcome, response, remote, fixed>>

\* deploy lines 78-82: issue the token, stamp the time, return the dictionary
DeployReturn(a) ==
    /\ pc[a] = "token"
    /\ Invoke(a, "token", "issueToken", "ok")
    /\ outcome' = [outcome EXCEPT ![a] =
           [kind |-> "return", exc |-> NoExc,
            fields |-> ServiceInfoKeys \cup {"access_token", "deployment_time"}]]
    /\ Goto(a, "returned")
    /\ UNCHANGED <<retry_count, ensure_rets, response, remote, fixed>>

\* a handler that compensates: it deletes the service of the failed attempt
DeployExcept_compensating(a) ==
    /\ pc[a] = "raising"
    /\ outcome' = [outcome EXCEPT ![a] =
           [kind |-> "raise", exc |-> deploy_except(exc[a]), fields |-> {}]]
    /\ pc' = [pc EXCEPT ![a] = "failed"]
    /\ Invoke(a, "service", "deleteService", "ok")
    /\ services' = services \ {service_name(a)}
    /\ UNCHANGED <<exc, raised, retry_count, ensure_rets, response,
                   repositories, images, policies, deployments, fixed>>

\* deploy lines 84-86: the handler around the whole of deploy
DeployExcept(a) ==
    /\ pc[a] = "raising"
    /\ outcome' = [outcome EXCEPT ![a] =
           [kind |-> "raise", exc |-> deploy_except(exc[a]), fields |-> {}]]
    /\ pc' = [pc EXCEPT ![a] = "failed"]
    /\ UNCHANGED <<calls, exc, raised, retry_count, ensure_rets,
                   response, remote, fixed>>

-----------------------------------------------------------------------------
(* The HTTP route create_deployment *)

\* api/routes/deployments.py lines 13-17: return the dictionary, or answer
\* 500 with the text of the exception
CreateDeployment(a) ==
    /\ pc[a] \in {"returned", "failed"}
    /\ response' = [response EXCEPT ![a] =
           IF outcome[a].kind = "return" THEN outcome[a]
           ELSE [kind |-> "raise", exc |-> create_deployment_except(outcome[a].exc),
                 fields |-> {}]]
    /\ pc' = [pc EXCEPT ![a] = "responded"]
    /\ UNCHANGED <<calls, exc, raised, retry_count, ensure_rets,
                   outcome, remote, fixed>>

-----------------------------------------------------------------------------
(* The deployment pipeline, the attempts interleaving at their calls *)

Step(a) ==
    \/ CreateAppFiles(a)
    \/ BuildContainer(a)
    \/ GetRepository(a)
    \/ CreateRepository(a)
    \/ RepositoryAuth(a)
    \/ PushAuth(a)
    \/ PushImage(a)
    \/ PollImage(a)
    \/ PollExhausted(a)
    \/ CreateService(a)
    \/ SetAccessPolicy(a)
    \/ GetServiceInfo(a)
    \/ DeployReturn(a)
    \/ DeployExcept(a)
    \/ CreateDeployment(a)

Next == \E a \in Attempts : Step(a)

Spec == Init /\ [][Next]_vars

-----------------------------------------------------------------------------
(* The pipeline when every call returns: each request is served by its own  *)
(* thread of blocking calls, so an attempt that can take a step takes it     *)

SpecLive == Spec /\ \A a \in Attempts : WF_vars(Step(a))

-----------------------------------------------------------------------------
(* create_repository called again and again, one call at a time *)

MaxEnsureCalls == 2

CompletedCalls == { <<a, i>> \in Attempts \X (1..MaxEnsureCalls) : i <= Len(ensure_rets[a]) }

InitEnsure ==
    /\ InitCommon
    /\ InitApart
    /\ pc = [a \in Attempts |-> "idle"]
    /\ repositories \in SUBSET RepositoryNames
    /\ initial_repositories = repositories

\* a caller invokes create_repository while no other call is in progress
EnsureCall(a) ==
    /\ \A b \in Attempts : pc[b] = "idle"
    /\ Cardinality(CompletedCalls) < MaxEnsureCalls
    /\ pc' = [pc EXCEPT ![a] = "repo_get"]
    /\ exc' = [exc EXCEPT ![a] = NoExc]
    /\ raised' = [raised EXCEPT ![a] = NoRaised]
    /\ UNCHANGED <<calls, retry_count, ensure_rets, outcome, response, remote, fixed>>

\* the call is over: the caller has the handle or the exception
EnsureDone(a) ==
    /\ pc[a] \in {"repo_returned", "raising"}
    /\ pc' = [pc EXCEPT ![a] = "idle"]
    /\ UNCHANGED <<calls, exc, raised, retry_count, ensure_rets, outcome,
                   response, remote, fixed>>

NextEnsure ==
    \E a \in Attempts :
        \/ EnsureCall(a)
        \/ GetRepository(a)
        \/ CreateRepository(a)
        \/ RepositoryAuth(a)
        \/ EnsureDone(a)

SpecEnsure == InitEnsure /\ [][NextEnsure]_vars

-----------------------------------------------------------------------------
(* generate_access_token: the payload is built entry by entry, each         *)
(* datetime.now a read of the wall clock, and jwt.encode turns the two       *)
(* datetimes into whole seconds                                              *)

\* the resolution of the clock, and the latest instant enumerated
TicksPerSecond == 2

MaxClock == 3

SecondsPerMinute == 60

\* the default of expiration_minutes, and the values enumerated
DefaultExpirationMinutes == 60

ExpirationMinutes == {1, DefaultExpirationMinutes}

\* timedelta(minutes=n) in ticks
timedelta(minutes) == minutes * SecondsPerMinute * TicksPerSecond

\* jwt.encode writes a datetime as its whole seconds since the epoch
timegm(t) == t \div TicksPerSecond

InitToken ==
    /\ InitCommon
    /\ pc = [a \in Attempts |-> "idle"]
    /\ repositories = {}
    /\ initial_repositories = repositories
    /\ clock \in 0..(TicksPerSecond - 1)
    /\ token = [a \in Attempts |-> NoToken]
    /\ session = [a \in Attempts |-> NoSession]
    /\ save_rets = [a \in Attempts |-> <<>>]

\* what the steps of the token issuer leave alone
pipeline == <<pc, calls, retry_count, exc, raised, ensure_rets, outcome, response,
              remote, client_id, unique_id, initial_repositories>>

\* time passes
Tick ==
    /\ clock < MaxClock
    /\ clock' = clock + 1
    /\ UNCHANGED <<token, session, save_rets, pipeline>>

\* line 380: 'exp': datetime.now(timezone.utc) + timedelta(minutes=expiration_minutes)
TokenExp(a) ==
    /\ token[a].state = "none"
    /\ \E minutes \in ExpirationMinutes :
          token' = [token EXCEPT ![a] =
              [NoToken EXCEPT !.state = "exp",
                              !.expiration_minutes = minutes,
                              !.exp = clock + timedelta(minutes)]]
    /\ UNCHANGED <<clock, session, save_rets, pipeline>>

\* line 381: 'iat': datetime.now(timezone.utc)
TokenIat(a) ==
    /\ token[a].state = "exp"
    /\ token' = [token EXCEPT ![a].state = "payload", ![a].iat = clock]
    /\ UNCHANGED <<clock, session, save_rets, pipeline>>

\* line 384: jwt.encode(payload, self.jwt_secret, algorithm='HS256')
TokenEncode(a) ==
    /\ token[a].state = "payload"
    /\ token' = [token EXCEPT ![a].state = "issued",
                              ![a].encoded = [exp |-> timegm(token[a].exp),
                                              iat |-> timegm(token[a].iat)]]
    /\ UNCHANGED <<clock, session, save_rets, pipeline>>

NextToken ==
    \/ Tick
    \/ \E a \in Attempts : TokenExp(a) \/ TokenIat(a) \/ TokenEncode(a)

SpecToken == InitToken /\ [][NextToken]_vars

-----------------------------------------------------------------------------
(* db.save_deployment: one session per call, the calls of different         *)
(* requests interleaving at the database round trips.  The deployments       *)
(* table has a unique constraint on service_name, which the database         *)
(* enforces when the insert is committed.                                    *)

\* calls of save_deployment enumerated
MaxSaves == 3

\* the unique constraint rejected the insert / the database could not be reached
IntegrityError == Exc("IntegrityError", "UNIQUE constraint failed: deployments.service_name", "commit")

OperationalError(op) == Exc("OperationalError", "server closed the connection", op)

None == [id |-> 0]

\* the primary key the database gives the next row
NextId == Cardinality(deployments) + 1

\* lines 42-50: the row built from the dictionary deploy returns, which has no
\* image_tag entry
Deployment(id, a) ==
    [id |-> id,
     service_name |-> service_name(a),
     client_id |-> client_id[a],
     image_tag |-> "",
     status |-> "RUNNING",
     rpc_endpoint |-> <<"https://", service_name(a)>>,
     ws_endpoint |-> <<"wss://", service_name(a), "/ws">>,
     access_token |-> <<"token", a>>,
     created_at |-> clock]

\* lines 63-68: query(Deployment).filter_by(service_name=...).first()
get_deployment(name) ==
    IF \E row \in deployments : row.service_name = name
    THEN CHOOSE row \in deployments : row.service_name = name
    ELSE None

\* lines 71-76: query(Deployment).filter_by(client_id=...).all()
list_deployments(client) == { row \in deployments : row.client_id = client }

SaveCalls == { <<a, i>> \in Attempts \X (1..MaxSaves) : i <= Len(save_rets[a]) }

OpenSessions == { a \in Attempts : session[a].state # "closed" }

InitDb ==
    /\ InitCommon
    /\ pc = [a \in Attempts |-> "idle"]
    /\ repositories = {}
    /\ initial_repositories = repositories
    /\ InitApart

\* what the steps of save_deployment leave alone
storeless == <<pc, calls, retry_count, exc, raised, ensure_rets, outcome, response,
               repositories, images, services, policies, client_id, unique_id,
               initial_repositories, clock, token>>

\* lines 40-51: open a session, build the row, db.add
SaveAdd(a) ==
    /\ session[a].state = "closed"
    /\ Cardinality(SaveCalls) + Cardinality(OpenSessions) < MaxSaves
    /\ session' = [session EXCEPT ![a] =
           [NoSession EXCEPT !.state = "added", !.concurrent = OpenSessions]]
    /\ UNCHANGED <<deployments, save_rets, storeless>>

\* a commit that inserts whatever the table holds
SaveCommit_unchecked(a) ==
    /\ session[a].state = "added"
    /\ \/ /\ deployments' = deployments \cup {Deployment(NextId, a)}
          /\ session' = [session EXCEPT ![a].state = "committed",
                                        ![a].inserted = NextId]
       \/ /\ session' = [session EXCEPT ![a].state = "except",
                                        ![a].exc = OperationalError("commit")]
          /\ UNCHANGED deployments
    /\ UNCHANGED <<save_rets, storeless>>

\* line 52: db.commit() flushes the insert and commits it
SaveCommit(a) ==
    /\ session[a].state = "added"
    /\ \/ /\ get_deployment(service_name(a)) = None
          /\ deployments' = deployments \cup {Deployment(NextId, a)}
          /\ session' = [session EXCEPT ![a].state = "committed",
                                        ![a].inserted = NextId]
       \/ /\ get_deployment(service_name(a)) # None
          /\ session' = [session EXCEPT ![a].state = "except",
                                        ![a].exc = IntegrityError]
          /\ UNCHANGED deployments
       \/ /\ session' = [session EXCEPT ![a].state = "except",
                                        ![a].exc = OperationalError("commit")]
          /\ UNCHANGED deployments
    /\ UNCHANGED <<save_rets, storeless>>

\* lines 53-54 and 59-60: db.refresh reads the row back; return it and close
SaveRefresh(a) ==
    /\ session[a].state = "committed"
    /\ \/ /\ session' = [session EXCEPT ![a] = NoSession]
          /\ save_rets' = [save_rets EXCEPT ![a] =
                 Append(@, [kind |-> "return", exc |-> NoExc,
                            inserted |-> session[a].inserted,
                            concurrent |-> session[a].concurrent])]
       \/ /\ session' = [session EXCEPT ![a].state = "except",
                                        ![a].exc = OperationalError("refresh")]
          /\ UNCHANGED save_rets
    /\ UNCHANGED <<deployments, storeless>>

\* lines 55-60: db.rollback() undoes what is not committed, the exception is
\* logged and raised again, the session is closed
SaveExcept(a) ==
    /\ session[a].state = "except"
    /\ session' = [session EXCEPT ![a] = NoSession]
    /\ save_rets' = [save_rets EXCEPT ![a] =
           Append(@, [kind |-> "raise", exc |-> session[a].exc,
                      inserted |-> session[a].inserted,
                      concurrent |-> session[a].concurrent])]
    /\ UNCHANGED <<deployments, storeless>>

NextDb ==
    \E a \in Attempts :
        \/ SaveAdd(a)
        \/ SaveCommit(a)
        \/ SaveRefresh(a)
        \/ SaveExcept(a)

SpecDb == InitDb /\ [][NextDb]_vars

-----------------------------------------------------------------------------
(* Reading the log of calls *)

\* the positions in the log of attempt a where `stage` invoked `op`
Invocations(a, stage, op) ==
    { i \in DOMAIN calls[a] : calls[a][i].stage = stage /\ calls[a][i].op = op }

\* the positions of the visibility queries, and of those that observed the image
Queries(a) == Invocations(a, "publish", "listImages")

Observing(a) == { i \in Queries(a) : calls[a][i].res = "observed" }

Sleeps(a) == Invocations(a, "publish", "sleep")

StagesOf(a) == { calls[a][i].stage : i \in DOMAIN calls[a] }

\* the stages in the order deploy runs them
StageRank(stage) ==
    CASE stage = "build" -> 0
      [] stage = "repository" -> 1
      [] stage = "publish" -> 2
      [] stage = "service" -> 3
      [] stage = "info" -> 4
      [] stage = "token" -> 5
      [] stage = "record" -> 6

\* the rows of the store for the service of attempt a
RowsOf(a) == { row \in deployments : row.service_name = service_name(a) }

\* deploy has handed its caller an exception / a result
DeployFailed(a) == outcome[a].kind = "raise"

DeploySucceeded(a) == outcome[a].kind = "return"

\* publish (push_to_registry) has returned normally in attempt a
PublishReturned(a) ==
    pc[a] = "svc_create" \/ StagesOf(a) \cap {"service", "info", "token"} # {}

\* the push succeeded and the loop ran out without an observing query
Unverified(a) ==
    /\ Invocations(a, "publish", "pushImage") # {}
    /\ \A i \in Invocations(a, "publish", "pushImage") : calls[a][i].res = "ok"
    /\ Cardinality(Queries(a)) = MaxRetries
    /\ Observing(a) = {}

-----------------------------------------------------------------------------
(* Claims *)

\* C1: once a stage of deploy has failed, no operation of a later stage is
\* invoked, deploy does not return a result, and what deploy raises to its
\* caller is the very exception that was first raised (same class, message
\* and origin), neither replaced nor swallowed.
C1_FirstFailureVerbatim ==
    \A a \in Attempts :
        /\ raised[a].exc # NoExc =>
              /\ calls[a] = raised[a].calls
              /\ ~DeploySucceeded(a)
              /\ pc[a] \in {"raising", "failed", "responded"}
              /\ pc[a] # "raising" => DeployFailed(a)
        /\ DeployFailed(a) =>
              /\ raised[a].exc # NoExc
              /\ outcome[a].exc = raised[a].exc

\* a stage in the middle of the pipeline failed and deploy has raised
C1_Witness ==
    \E a \in Attempts :
        /\ DeployFailed(a)
        /\ raised[a].exc \in CreateServiceErrors
        /\ outcome[a].exc = raised[a].exc

\* C2: every attempt (of a non-empty client id) in which deploy returned its
\* result has exactly one row in the store for its service name, with status
\* RUNNING.
C2_RecordedOnSuccess ==
    \A a \in Attempts :
        ( ValidClient(a) /\ DeploySucceeded(a) ) =>
            /\ Cardinality(RowsOf(a)) = 1
            /\ \A row \in RowsOf(a) : row.status = "RUNNING"

\* C3: the operations of one attempt are invoked stage after stage in the
\* order build, repository, publish, service, info, token, record, and a
\* stage is entered only after the one before it returned successfully;
\* createService comes only after the image was pushed and a query observed it.
C3_StagesInOrder ==
    \A a \in Attempts :
        /\ \A i \in 1..(Len(calls[a]) - 1) :
              /\ StageRank(calls[a][i].stage) <= StageRank(calls[a][i + 1].stage)
              /\ calls[a][i].res # "raise"
        /\ "publish" \in StagesOf(a) =>
              /\ Len(ensure_rets[a]) = 1
              /\ ensure_rets[a][1] = Returned(repository_path(a))
        /\ "service" \in StagesOf(a) =>
              /\ \E i \in Invocations(a, "publish", "pushImage") :
                    /\ calls[a][i].res = "ok"
                    /\ \E j \in Observing(a) :
                          /\ i < j
                          /\ \A k \in Invocations(a, "service", "createService") : j < k
              /\ image_tag(a) \in images
        /\ "info" \in StagesOf(a) =>
              /\ \E i \in Invocations(a, "service", "createService") :
                    \E j \in Invocations(a, "service", "setAccessPolicy") :
                        i < j /\ calls[a][i].res = "ok" /\ calls[a][j].res = "ok"
              /\ service_name(a) \in services \cap policies
        /\ "token" \in StagesOf(a) =>
              \E i \in Invocations(a, "info", "getService") : calls[a][i].res = "ok"
        /\ "record" \in StagesOf(a) => "token" \in StagesOf(a)

\* an attempt went through every stage, the image being observed by the second query
C3_Witness ==
    \E a \in Attempts :
        /\ DeploySucceeded(a)
        /\ Cardinality(Queries(a)) = 2
        /\ Invocations(a, "repository", "createRepository") # {}

\* C4: when the push succeeded and none of the 3 queries observed the
\* image, the attempt halts with the "Image not available after retries"
\* failure: createService is never invoked and no record is persisted.
C4_UnverifiedHalts ==
    \A a \in Attempts :
        Unverified(a) =>
            /\ pc[a] \in {"poll", "raising", "failed", "responded"}
            /\ pc[a] # "poll" => exc[a] = NotAvailable /\ raised[a].exc = NotAvailable
            /\ pc[a] \in {"failed", "responded"} =>
                  DeployFailed(a) /\ outcome[a].exc = NotAvailable
            /\ StagesOf(a) \cap {"service", "info", "token", "record"} = {}
            /\ service_name(a) \in services =>
                  \E b \in Attempts \ {a} : service_name(b) = service_name(a)
            /\ RowsOf(a) = {}

\* three queries, none observing, and deploy has raised
C4_Witness ==
    \E a \in Attempts :
        /\ Unverified(a)
        /\ DeployFailed(a)
        /\ outcome[a].exc = NotAvailable

\* C5: after a successful push there are at most 3 queries, none after an
\* observing one; publish returns exactly when a query observed the image,
\* that query being the last: if it is the k-th, k queries were made.
C5_PollsUntilObserved ==
    \A a \in Attempts :
        /\ Cardinality(Queries(a)) <= MaxRetries
        /\ Queries(a) # {} =>
              \E i \in Invocations(a, "publish", "pushImage") :
                  calls[a][i].res = "ok" /\ \A q \in Queries(a) : i < q
        /\ \A i \in Observing(a) : \A q \in Queries(a) : q <= i
        /\ PublishReturned(a) <=> Observing(a) # {}
        /\ PublishReturned(a) =>
              /\ Cardinality(Observing(a)) = 1
              /\ Cardinality(Queries(a)) \in 1..MaxRetries
              /\ Cardinality(Sleeps(a)) = Cardinality(Queries(a)) - 1

\* the second query is the first that observes: two queries, publish returned
C5_Witness ==
    \E a \in Attempts :
        /\ PublishReturned(a)
        /\ Cardinality(Queries(a)) = 2
        /\ Cardinality(Observing(a)) = 1

-----------------------------------------------------------------------------
(* Claims about create_repository called twice *)

\* no call of create_repository is in progress
Quiescent == \A a \in Attempts : pc[a] = "idle"

\* the completed calls for repository rn, and the create requests made for it
EnsureCallsFor(rn) == { c \in CompletedCalls : repository_name(c[1]) = rn }

CreateRequests(rn) ==
    { c \in Attempts \X (1..(3 * MaxEnsureCalls)) :
        /\ repository_name(c[1]) = rn
        /\ c[2] \in Invocations(c[1], "repository", "createRepository") }

ExpectedCreates(rn) == IF rn \in initial_repositories THEN 0 ELSE 1

\* the registry answered every request made for repository rn
RegistryAnswered(rn) ==
    \A a \in Attempts :
        repository_name(a) = rn =>
            \A i \in DOMAIN calls[a] :
                calls[a][i].op \in {"getRepository", "createRepository"}
                    => calls[a][i].res # "raise"

-----------------------------------------------------------------------------
(* Claims about create_repository within deploy *)

GetRepositoryEnded(a, res) ==
    \E i \in Invocations(a, "repository", "getRepository") : calls[a][i].res = res

\* after get_repository found the repository, create_repository has returned
\* the fetched handle without a create request or an authentication step
FoundIsNoOp ==
    \A a \in Attempts :
        GetRepositoryEnded(a, "found") =>
            /\ Invocations(a, "repository", "createRepository") = {}
            /\ Invocations(a, "repository", "configureAuth") = {}
            /\ Cardinality(Invocations(a, "repository", "getRepository")) = 1
            /\ ensure_rets[a] = << Returned(repository_path(a)) >>
            /\ repository_name(a) \in repositories
            /\ raised[a].exc.op \notin {"getRepository", "createRepository"}

\* the step in which get_repository finds the repository changes no remote state
FoundChangesNothing ==
    \A a \in Attempts :
        ( GetRepositoryEnded(a, "found")' /\ ~GetRepositoryEnded(a, "found") )
        => /\ repositories' = repositories
           /\ images' = images
           /\ services' = services
           /\ policies' = policies
           /\ pc'[a] = "repo_returned"

\* C8: when get_repository finds the repository, create_repository returns
\* the fetched handle and changes nothing (no create request, no
\* authentication configuration, registry as before), and deploy goes on to
\* the publish stage.
C8_FoundIsNoOp == []FoundIsNoOp /\ [][FoundChangesNothing]_vars

\* the repository was found and the attempt went on to succeed
C8_Witness ==
    \E a \in Attempts :
        /\ GetRepositoryEnded(a, "found")
        /\ DeploySucceeded(a)

\* C9: when get_repository fails with an error other than NotFound,
\* create_repository raises that same error: no create request, no
\* authentication configuration, no second get_repository.
C9_GetErrorPropagates ==
    \A a \in Attempts :
        GetRepositoryEnded(a, "raise") =>
            /\ raised[a].exc \in GetRepositoryErrors
            /\ exc[a] = raised[a].exc
            /\ ensure_rets[a] = << Failed(raised[a].exc) >>
            /\ DeployFailed(a) => outcome[a].exc = raised[a].exc
            /\ Cardinality(Invocations(a, "repository", "getRepository")) = 1
            /\ Invocations(a, "repository", "createRepository") = {}
            /\ Invocations(a, "repository", "configureAuth") = {}
            /\ Invocations(a, "publish", "configureAuth") = {}
            /\ calls[a][Len(calls[a])] = Call("repository", "getRepository", "raise")

\* get_repository was denied and deploy has raised PermissionDenied
C9_Witness ==
    \E a \in Attempts :
        /\ GetRepositoryEnded(a, "raise")
        /\ DeployFailed(a)
        /\ outcome[a].exc.cls = "PermissionDenied"

\* C10: two attempts (of non-empty client ids) for the same repository,
\* absent at first: the repository is the object of one create request and
\* no create_repository call fails because the other attempt created it first.
C10_IndependentAttempts ==
    \A a, b \in Attempts :
        ( /\ a # b
          /\ ValidClient(a) /\ ValidClient(b)
          /\ repository_name(a) = repository_name(b)
          /\ repository_name(a) \notin initial_repositories
          /\ ensure_rets[a] # <<>>
          /\ ensure_rets[b] # <<>> )
        => /\ ensure_rets[a][1].exc # AlreadyExists
           /\ ( ensure_rets[a][1].kind = "return" /\ ensure_rets[b][1].kind = "return" )
              => Cardinality(Invocations(a, "repository", "createRepository"))
                   + Cardinality(Invocations(b, "repository", "createRepository")) = 1

-----------------------------------------------------------------------------
(* Claims about the service deployer *)

\* the service was created in attempt a and binding its policy failed
PolicyFailed(a) ==
    /\ \E i \in Invocations(a, "service", "createService") : calls[a][i].res = "ok"
    /\ \E i \in Invocations(a, "service", "setAccessPolicy") : calls[a][i].res = "raise"

\* creating the service failed in attempt a
CreateFailed(a) ==
    \E i \in Invocations(a, "service", "createService") : calls[a][i].res = "raise"

C12_ServiceCallsOnce ==
    \A a \in Attempts :
        /\ Cardinality(Invocations(a, "service", "createService")) <= 1
        /\ Cardinality(Invocations(a, "service", "setAccessPolicy")) <= 1

\* an attempt is over whose createService failed, and another whose
\* setAccessPolicy failed after its one createService
C12_Witness ==
    \E a, b \in Attempts :
        /\ pc[a] = "responded" /\ CreateFailed(a)
        /\ pc[b] = "responded" /\ PolicyFailed(b)
        /\ Cardinality(Invocations(b, "service", "createService")) = 1

-----------------------------------------------------------------------------
(* Claims about what a failed attempt leaves behind *)

\* operation op of `stage` succeeded in attempt a
Succeeded(a, stage, op) ==
    \E i \in Invocations(a, stage, op) : calls[a][i].res = "ok"

\* the operations that would undo a stage
DeleteOps == {"deleteRepository", "deleteImage", "deleteService"}

\* everything the stages of attempt a created so far exists, and no delete was
\* issued
CreatedStillExists ==
    \A a \in Attempts :
        /\ Succeeded(a, "repository", "createRepository")
              => repository_name(a) \in repositories
        /\ Succeeded(a, "publish", "pushImage") => image_tag(a) \in images
        /\ Succeeded(a, "service", "createService") => service_name(a) \in services
        /\ \A i \in DOMAIN calls[a] : calls[a][i].op \notin DeleteOps

\* no step takes a repository, an image, a service or a policy binding away
NothingDeleted ==
    /\ repositories \subseteq repositories'
    /\ images \subseteq images'
    /\ services \subseteq services'
    /\ policies \subseteq policies'

\* C13: no compensating rollback: when an attempt fails at some stage, every
\* remote resource its earlier stages created (repository, pushed image,
\* service) still exists afterwards, and no step of the pipeline deletes a
\* repository, an image or a service.
C13_NoRollback == []CreatedStillExists /\ [][NothingDeleted]_vars

\* an attempt that created its repository, pushed its image and created its
\* service has failed, and all three are there
C13_Witness ==
    \E a \in Attempts :
        /\ DeployFailed(a)
        /\ Succeeded(a, "repository", "createRepository")
        /\ Succeeded(a, "publish", "pushImage")
        /\ Succeeded(a, "service", "createService")
        /\ repository_name(a) \in repositories
        /\ image_tag(a) \in images
        /\ service_name(a) \in services

-----------------------------------------------------------------------------
(* Claims about the token *)

\* C14: every token issued with expiration_minutes = T carries an expiry and
\* an issued-at that differ by exactly T minutes, however the clock advances
\* while the token is being issued.
C14_ExactLifetime ==
    \A a \in Attempts :
        token[a].state = "issued" =>
            token[a].encoded.exp - token[a].encoded.iat
                = token[a].expiration_minutes * SecondsPerMinute

-----------------------------------------------------------------------------
(* Claims about the store *)

\* the completed save_deployment calls, and their outcomes
SaveOf(c) == save_rets[c[1]][c[2]]

SaveFailed(c) == SaveOf(c).kind = "raise"

SaveReturned(c) == SaveOf(c).kind = "return"

\* the rows the call made visible
RowsInsertedBy(c) == { row \in deployments : row.id = SaveOf(c).inserted }

\* C15: a save_deployment call that fails leaves the store as it was before
\* the call, adding no row; a call for a service name already in the table
\* fails on the unique constraint, and the row of that name is the one that
\* was there, which get_deployment returns.
C15_FailedSaveLeavesStore ==
    \A c \in SaveCalls :
        ( ValidClient(c[1]) /\ SaveFailed(c) ) =>
            /\ RowsInsertedBy(c) = {}
            /\ SaveOf(c).exc = IntegrityError =>
                  /\ get_deployment(service_name(c[1])) # None
                  /\ get_deployment(service_name(c[1])).id # SaveOf(c).inserted

\* two calls carry the same service name
SameName(c, d) == c # d /\ service_name(c[1]) = service_name(d[1])

\* the database answered the call's round trips
StoreAnswered(c) == SaveOf(c).exc.cls # "OperationalError"

\* the table held no row of their name before calls c and d
NameFreeBefore(c, d) ==
    \A row \in deployments :
        row.service_name = service_name(c[1])
            => row.id \in {SaveOf(c).inserted, SaveOf(d).inserted}

\* C16: the table never holds two rows of one service name, however the
\* save_deployment calls interleave; of two calls with the same service name
\* at most one returns a row, exactly one when the name was free before them
\* and the database answered both, and the other fails on the unique
\* constraint with the winner's row left as it was inserted.
C16_OneRowPerName ==
    /\ \A r1, r2 \in deployments : r1.service_name = r2.service_name => r1 = r2
    /\ \A c, d \in SaveCalls :
          SameName(c, d) =>
              /\ ~(SaveReturned(c) /\ SaveReturned(d))
              /\ ( StoreAnswered(c) /\ StoreAnswered(d) /\ NameFreeBefore(c, d) ) =>
                    ( SaveReturned(c) \/ SaveReturned(d) )
              /\ ( SaveReturned(c) /\ SaveFailed(d) /\ StoreAnswered(d) ) =>
                    /\ SaveOf(d).exc = IntegrityError
                    /\ SaveOf(d).inserted = 0
                    /\ get_deployment(service_name(d[1])) = Deployment(SaveOf(c).inserted, c[1])

\* two callers had their sessions open at once for one service name; one got
\* its row, the other the unique constraint
C16_Witness ==
    \E c, d \in SaveCalls :
        /\ SameName(c, d)
        /\ c[1] # d[1]
        /\ c[1] \in SaveOf(d).concurrent
        /\ client_id[c[1]] # client_id[d[1]]
        /\ SaveReturned(c)
        /\ SaveOf(d).exc = IntegrityError

-----------------------------------------------------------------------------
(* Claims about the deployment context *)

\* C17: a request with the empty client id is rejected with InvalidArgument
\* when the manager is constructed: none of its build, registry, compute or
\* storage operations is ever invoked and it gets no result.
C17_EmptyClientRejected ==
    \A a \in Attempts :
        client_id[a] = <<>> =>
            /\ calls[a] = <<>>
            /\ ~DeploySucceeded(a)
            /\ DeployFailed(a) => outcome[a].exc.cls = "InvalidArgument"

-----------------------------------------------------------------------------
(* Claims about termination *)

\* deploy is over for attempt a: it returned its result or raised
Terminal(a) == pc[a] \in {"returned", "failed", "responded"}

\* a step of attempt a in which a call raises
FailingStep(a) == Step(a) /\ pc'[a] = "raising"

\* a turn of the visibility loop that does not observe the image
NotObservingTurn(a) == PollImage(a) /\ retry_count'[a] = retry_count[a] + 1

\* attempt a can still fail: a call that is next can raise, a turn of the
\* loop can bring it closer to running out, or an exception is on its way to
\* the caller
CanStillFail(a) ==
    \/ pc[a] = "raising"
    \/ ENABLED FailingStep(a)
    \/ loop_continues(retry_count[a]) /\ ENABLED NotObservingTurn(a)

\* for the attempts of a non-empty client id
FailedReachable ==
    \A a \in Attempts : ( ValidClient(a) /\ ~Terminal(a) ) => CanStillFail(a)

\* once deploy is over no operation is invoked and its outcome stays
TerminalAbsorbing ==
    \A a \in Attempts :
        Terminal(a) =>
            /\ Terminal(a)'
            /\ calls'[a] = calls[a]
            /\ outcome'[a] = outcome[a]

PollsBounded == \A a \in Attempts : Cardinality(Queries(a)) <= MaxRetries

EveryAttemptEnds == \A a \in Attempts : <>Terminal(a)

\* C18: every attempt eventually ends, with a result or with a failure, when
\* each call returns; a finished attempt invokes nothing more; failure is
\* reachable from every state of an attempt that is not finished; and the
\* visibility loop makes at most 3 queries.
C18_EndsOrCanFail ==
    /\ EveryAttemptEnds
    /\ [][TerminalAbsorbing]_vars
    /\ []FailedReachable
    /\ []PollsBounded

\* C18 without the reachability of failure
C18_Ends ==
    /\ EveryAttemptEnds
    /\ [][TerminalAbsorbing]_vars
    /\ []PollsBounded

-----------------------------------------------------------------------------
(* Claims about the result of deploy *)

\* the stages of deploy, and the entries its result must have
Stages == {"build", "repository", "publish", "service", "info", "token"}

ResultFields ==
    {"service_name", "rpc_endpoint", "ws_endpoint", "status", "access_token",
     "deployment_time"}

\* every stage of attempt a ran and none of its calls raised
EveryStageSucceeded(a) ==
    /\ StagesOf(a) = Stages
    /\ \A i \in DOMAIN calls[a] : calls[a][i].res # "raise"
    /\ Succeeded(a, "publish", "pushImage")
    /\ Observing(a) # {}
    /\ Succeeded(a, "service", "createService")
    /\ Succeeded(a, "service", "setAccessPolicy")
    /\ Succeeded(a, "info", "getService")
    /\ raised[a].exc = NoExc

\* C19: deploy returns a result only when every stage succeeded, and the
\* result then has the service name, both endpoints, the status, the access
\* token and the deployment time; an attempt in which a stage failed gets no
\* result, complete or partial.
C19_AllOrNothing ==
    \A a \in Attempts :
        /\ DeploySucceeded(a) =>
              /\ EveryStageSucceeded(a)
              /\ ResultFields \subseteq outcome[a].fields
        /\ raised[a].exc # NoExc =>
              /\ ~DeploySucceeded(a)
              /\ outcome[a].fields = {}
              /\ response[a].fields = {}

\* one attempt has its result after a query that did not observe the image,
\* the other failed after its service was created and got nothing
C19_Witness ==
    \E a, b \in Attempts :
        /\ DeploySucceeded(a)
        /\ Queries(a) # Observing(a)
        /\ ResultFields \subseteq response[a].fields
        /\ DeployFailed(b)
        /\ Succeeded(b, "service", "createService")
        /\ response[b].kind = "raise"

-----------------------------------------------------------------------------
(* Claims about the order of the steps of push_to_registry *)

\* the calls of push_to_registry in attempt a, in order
PublishCalls(a) == SelectSeq(calls[a], LAMBDA c : c.stage = "publish")

\* configureAuth or pushImage of push_to_registry failed in attempt a
PublishStepFailed(a) ==
    \E i \in Invocations(a, "publish", "configureAuth")
             \cup Invocations(a, "publish", "pushImage") : calls[a][i].res = "raise"

\* C20: push_to_registry configures authentication, then pushes, then polls:
\* pushImage is invoked only right after a configureAuth that succeeded, a
\* visibility query only after a pushImage that succeeded, and a failure of
\* configureAuth or of pushImage is propagated with no query and no wait made.
C20_AuthPushPoll ==
    \A a \in Attempts :
        LET p == PublishCalls(a) IN
        /\ \A i \in DOMAIN p :
              /\ p[i].op = "configureAuth" => i = 1
              /\ p[i].op = "pushImage" =>
                    i = 2 /\ p[1].op = "configureAuth" /\ p[1].res = "ok"
              /\ p[i].op \in {"listImages", "sleep"} =>
                    i > 2 /\ p[2].op = "pushImage" /\ p[2].res = "ok"
        /\ PublishStepFailed(a) =>
              /\ Queries(a) = {}
              /\ Sleeps(a) = {}
              /\ raised[a].exc.op \in {"configureAuth", "pushImage"}
              /\ calls[a] = raised[a].calls
              /\ DeployFailed(a) => outcome[a].exc = raised[a].exc

\* one attempt failed at configureAuth of push_to_registry, the other at
\* pushImage after its configureAuth, and neither made a query
C20_Witness ==
    \E a, b \in Attempts :
        /\ DeployFailed(a) /\ DeployFailed(b)
        /\ Len(PublishCalls(a)) = 1 /\ PublishCalls(a)[1].res = "raise"
        /\ Len(PublishCalls(b)) = 2 /\ PublishCalls(b)[2].res = "raise"
        /\ Queries(a) \cup Queries(b) = {}

-----------------------------------------------------------------------------
(* Claims about the visibility loop *)

\* time.sleep(10)
SleepSeconds == 10

\* the queries of attempt a that did not observe the image
NotObserving(a) == Queries(a) \ Observing(a)

\* C21: in push_to_registry the waits are as many as the queries that did not
\* observe the image: each such query is followed at once by a wait of 10
\* seconds, a wait follows nothing else, and one call makes at most 3 waits,
\* 30 seconds in all.
C21_WaitsFollowMisses ==
    \A a \in Attempts :
        LET misses == NotObserving(a)
            waits == Sleeps(a)
        IN  /\ Cardinality(waits) = Cardinality(misses)
            /\ \A i \in waits : i - 1 \in misses
            /\ \A i \in misses : i + 1 \in waits
            /\ \A i \in Observing(a) : i + 1 \notin waits
            /\ Cardinality(waits) <= MaxRetries
            /\ Cardinality(waits) * SleepSeconds <= 30

\* one attempt ran out after three waits, the other observed the image at its
\* second query, after one wait
C21_Witness ==
    \E a, b \in Attempts :
        /\ Unverified(a) /\ Cardinality(Sleeps(a)) = MaxRetries
        /\ Cardinality(Observing(b)) = 1
        /\ Cardinality(Queries(b)) = 2
        /\ Cardinality(Sleeps(b)) = 1

\* the list command failed: subprocess.run raised, the exit code is not zero,
\* or nothing but white space was printed
Erroring(r) == r.raises \/ r.returncode # 0 \/ Strip(r.stdout) = <<>>

\* _verify_image_exists gives False for every result of a failed list command
ErrorsAreMisses == \A r \in ListResults : Erroring(r) => ~verify_image_exists(r)

\* push_to_registry failed in attempt a after its push had succeeded
FailedAfterPush(a) ==
    /\ Succeeded(a, "publish", "pushImage")
    /\ raised[a].exc # NoExc
    /\ raised[a].exc.op \notin {"createService", "setAccessPolicy", "getService"}

\* C22: a query that errors (the list command raises, exits non-zero or
\* prints nothing) counts as a query that did not observe the image and does
\* not abort push_to_registry: it uses up one of the 3 turns and the loop goes
\* on, so after a successful push the call fails only once 3 queries are made.
C22_QueryErrorIsMiss ==
    /\ ErrorsAreMisses
    /\ \A a \in Attempts :
          LET misses == NotObserving(a) IN
          /\ pc[a] = "poll" => retry_count[a] = Cardinality(misses)
          /\ misses # {} =>
                \/ pc[a] = "poll"
                \/ Observing(a) # {}
                \/ Cardinality(misses) = MaxRetries
          /\ FailedAfterPush(a) =>
                /\ raised[a].exc = NotAvailable
                /\ Cardinality(misses) = MaxRetries

\* a query missed the image and the loop went on to a query that observed it;
\* another attempt failed after three misses
C22_Witness ==
    \E a, b \in Attempts :
        /\ NotObserving(a) # {} /\ Observing(a) # {}
        /\ FailedAfterPush(b)
        /\ \E r \in ListResults : r.raises /\ ~verify_image_exists(r)

-----------------------------------------------------------------------------
(* Claims about the not-found path of create_repository *)

\* the create_repository call of attempt a that made its i-th logged call
CallOf(a, i) == Cardinality({ j \in 1..i : calls[a][j].op = "getRepository" })

\* the authentication configuration of create_repository failed at position i
AuthFailedAt(a, i) ==
    /\ calls[a][i].stage = "repository"
    /\ calls[a][i].op = "configureAuth"
    /\ calls[a][i].res = "raise"

\* C23: on the not-found path create_repository issues the create request and
\* waits for it before it configures authentication, which runs only after a
\* create that succeeded; when the configuration then fails the call fails,
\* the new repository stays in the registry, and a later call whose
\* get_repository is answered returns the repository without another create.
C23_CreateThenAuth ==
    \A a \in Attempts :
        \A i \in DOMAIN calls[a] :
            LET c == calls[a] IN
            /\ c[i].op = "createRepository" =>
                  i > 1 /\ c[i - 1].op = "getRepository" /\ c[i - 1].res = "NotFound"
            /\ ( c[i].stage = "repository" /\ c[i].op = "configureAuth" ) =>
                  i > 1 /\ c[i - 1].op = "createRepository" /\ c[i - 1].res = "ok"
            /\ AuthFailedAt(a, i) =>
                  /\ repository_name(a) \in repositories
                  /\ ensure_rets[a][CallOf(a, i)].kind = "raise"
                  /\ ensure_rets[a][CallOf(a, i)].exc
                        \in {AuthFailed, GcloudMissing("configureAuth")}
                  /\ \A j \in DOMAIN c :
                        j > i =>
                            /\ c[j].op = "getRepository"
                            /\ c[j].res \in {"found", "raise"}
                            /\ c[j].res = "found" =>
                                  ensure_rets[a][CallOf(a, j)] = Returned(repository_path(a))

\* a call created the repository and failed configuring authentication; the
\* next call for it found the repository and returned it
C23_Witness ==
    \E a \in Attempts :
        \E i \in DOMAIN calls[a] :
            /\ AuthFailedAt(a, i)
            /\ Len(calls[a]) = i + 1
            /\ calls[a][i + 1].res = "found"
            /\ Len(ensure_rets[a]) = 2
            /\ ensure_rets[a][2].kind = "return"
            /\ Quiescent

-----------------------------------------------------------------------------
(* Claims about the order of the service deployer and of deploy *)

\* C24: the policy request is made only right after a create_service that
\* completed successfully: when create_service fails no policy request is
\* made, and when the policy request fails the service stays, nothing more
\* is invoked and deploy raises instead of returning the service.
C24_PolicyAfterCreate ==
    \A a \in Attempts :
        /\ \A i \in Invocations(a, "service", "setAccessPolicy") :
              /\ i > 1
              /\ calls[a][i - 1] = Call("service", "createService", "ok")
        /\ CreateFailed(a) => Invocations(a, "service", "setAccessPolicy") = {}
        /\ PolicyFailed(a) =>
              /\ service_name(a) \in services
              /\ calls[a][Len(calls[a])] = Call("service", "setAccessPolicy", "raise")
              /\ ~DeploySucceeded(a)
              /\ pc[a] \in {"raising", "failed", "responded"}
              /\ pc[a] = "responded" => response[a].kind = "raise"

\* the policy request of one attempt failed and the route answered with the
\* error, the service existing; the other attempt's create_service failed
C24_Witness ==
    \E a, b \in Attempts :
        /\ PolicyFailed(a)
        /\ response[a].kind = "raise"
        /\ service_name(a) \in services
        /\ CreateFailed(b)
        /\ service_name(b) \notin services

\* creating the application files or building the image failed in attempt a
BuildFailed(a) ==
    \E i \in DOMAIN calls[a] : calls[a][i].stage = "build" /\ calls[a][i].res = "raise"

\* the operations on the registry and on the compute platform
RemoteOps ==
    {"getRepository", "createRepository", "configureAuth", "pushImage",
     "listImages", "createService", "setAccessPolicy", "getService"}

\* C25: deploy builds the image before it provisions the repository, so a
\* failure while creating the application files or building the image leaves
\* no remote effect: when the build error is raised the attempt has made no
\* getRepository, createRepository, push, createService or setAccessPolicy
\* call, and it makes none afterwards.
C25_BuildFirst ==
    /\ \A a \in Attempts :
          /\ \A i \in DOMAIN calls[a] :
                calls[a][i].op \in RemoteOps =>
                    /\ i > 2
                    /\ calls[a][1] = Call("build", "create_app_files", "ok")
                    /\ calls[a][2] = Call("build", "build", "ok")
          /\ BuildFailed(a) =>
                /\ StagesOf(a) = {"build"}
                /\ \A i \in DOMAIN calls[a] : calls[a][i].op \notin RemoteOps
                /\ raised[a].exc \in AppFilesErrors \cup BuildErrors
                /\ raised[a].calls = calls[a]
    /\ ( \A a \in Attempts : BuildFailed(a) ) =>
          /\ repositories = initial_repositories
          /\ images = {} /\ services = {} /\ policies = {}

\* both attempts are over, one failed creating its files and the other
\* building its image, and the registry and the platform are as they were
C25_Witness ==
    \E a, b \in Attempts :
        /\ pc[a] = "responded" /\ pc[b] = "responded"
        /\ raised[a].exc \in AppFilesErrors
        /\ raised[b].exc \in BuildErrors
        /\ repositories = initial_repositories /\ images = {} /\ services = {}

-----------------------------------------------------------------------------
(* Claims about the derived names *)

\* the sequence part occurs in the sequence whole
Embeds(whole, part) ==
    \E i \in 1..(Len(whole) - Len(part) + 1) :
        SubSeq(whole, i, i + Len(part) - 1) = part

\* C26: the names derive from the client id, the project and the unique id
\* alone, the repository name from the part of the client id before its first
\* '@' only: every image tag embeds the registry location, the project, the
\* repository name, the image name and the unique id; attempts with different
\* unique ids have different service names and image tags; and attempts whose
\* client ids agree before the '@' use one repository, even if the ids differ.
C26_DerivedNames ==
    \A a, b \in Attempts :
        /\ Embeds(image_tag(a), registry_location)
        /\ Embeds(image_tag(a), <<project_id>>)
        /\ Embeds(image_tag(a), repository_name(a))
        /\ Embeds(image_tag(a), <<image_name>>)
        /\ Embeds(image_tag(a), <<unique_id[a]>>)
        /\ Embeds(service_name(a), <<unique_id[a]>>)
        /\ Embeds(repository_name(a), BeforeAt(client_id[a]))
        /\ ~Embeds(repository_name(a), <<"@">>)
        /\ ( client_id[a] = client_id[b] /\ unique_id[a] = unique_id[b] ) =>
              /\ repository_name(a) = repository_name(b)
              /\ service_name(a) = service_name(b)
              /\ image_tag(a) = image_tag(b)
        /\ unique_id[a] # unique_id[b] =>
              /\ service_name(a) # service_name(b)
              /\ image_tag(a) # image_tag(b)
        /\ BeforeAt(client_id[a]) = BeforeAt(client_id[b]) =>
              repository_name(a) = repository_name(b)
        /\ BeforeAt(client_id[a]) # BeforeAt(client_id[b]) =>
              repository_name(a) # repository_name(b)

\* two clients whose ids agree before the '@' called create_repository one
\* after the other: the first created the repository, the second found it
C26_Witness ==
    \E a, b \in Attempts :
        /\ client_id[a] # client_id[b]
        /\ BeforeAt(client_id[a]) = BeforeAt(client_id[b])
        /\ unique_id[a] # unique_id[b]
        /\ image_tag(a) # image_tag(b)
        /\ Succeeded(a, "repository", "createRepository")
        /\ GetRepositoryEnded(b, "found")
        /\ repositories = initial_repositories \cup {repository_name(b)}

====
